---- MODULE Spec2Model ----
(***************************************************************************)
(* Model of the three scrapers of "Assignment 1":                          *)
(*   book_scraper.py   scrape_books(url, max_pages)  (paginated)           *)
(*   book_scraper2.py  scrape_books(url)             (single page)         *)
(*   durex_scraper.py  scrape_products(base_url), scrape_page_content(url) *)
(*                                                                         *)
(* Texts are sequences of one-character strings.  The pound sign is the    *)
(* character POUND and the mis-decoded "A circumflex" the character ACIRC. *)
(* A float is the exact decimal [sign, mant, scale] = sign*mant/10^scale   *)
(* with trailing fraction zeros removed (binary rounding is not modelled). *)
(***************************************************************************)
EXTENDS Integers, Sequences, FiniteSets, TLC

-----------------------------------------------------------------------------
(* Bounds *)

MaxPagesBound == 3

-----------------------------------------------------------------------------
(* Characters and Python string methods *)

POUND == "GBP"
ACIRC == "A^"
Digits == {"0", "1", "2", "3", "4", "5", "6", "7", "8", "9"}
Whitespace == {" "}

DigitVal(c) ==
  CASE c = "0" -> 0 [] c = "1" -> 1 [] c = "2" -> 2 [] c = "3" -> 3
    [] c = "4" -> 4 [] c = "5" -> 5 [] c = "6" -> 6 [] c = "7" -> 7
    [] c = "8" -> 8 [] c = "9" -> 9

RECURSIVE LStripSet(_, _)
LStripSet(s, cs) ==
  IF s # <<>> /\ Head(s) \in cs THEN LStripSet(Tail(s), cs) ELSE s

RECURSIVE RStripSet(_, _)
RStripSet(s, cs) ==
  IF s # <<>> /\ s[Len(s)] \in cs
    THEN RStripSet(SubSeq(s, 1, Len(s) - 1), cs) ELSE s

\* str.strip(): whitespace removed at both ends
Strip(s) == LStripSet(RStripSet(s, Whitespace), Whitespace)

\* str.replace(c, '') for a one-character c
Remove(s, c) == SelectSeq(s, LAMBDA x : x # c)

\* str.startswith(p)
StartsWith(s, p) == Len(s) >= Len(p) /\ SubSeq(s, 1, Len(p)) = p

RECURSIVE DigitsVal(_)
DigitsVal(s) ==
  IF s = <<>> THEN 0
  ELSE 10 * DigitsVal(SubSeq(s, 1, Len(s) - 1)) + DigitVal(s[Len(s)])

AllDigits(s) == \A k \in 1..Len(s) : s[k] \in Digits

RECURSIVE Normalize(_)
Normalize(f) ==
  IF f.mant = 0 THEN [sign |-> 1, mant |-> 0, scale |-> 0]
  ELSE IF f.scale > 0 /\ f.mant % 10 = 0
    THEN Normalize([f EXCEPT !.mant = f.mant \div 10, !.scale = f.scale - 1])
  ELSE f

Zero == [sign |-> 1, mant |-> 0, scale |-> 0]

\* float(s) for texts over digits, ".", "+", "-", whitespace and other
\* characters that make the text no number (exponents, "inf", "nan" and "_"
\* are not in the alphabet used): [ok |-> FALSE] stands for ValueError.
ParseFloat(s) ==
  LET t    == Strip(s)
      sgn  == IF t # <<>> /\ Head(t) = "-" THEN -1 ELSE 1
      body == IF t # <<>> /\ Head(t) \in {"+", "-"} THEN Tail(t) ELSE t
      dots == {k \in 1..Len(body) : body[k] = "."}
      dot  == IF dots = {} THEN Len(body) + 1 ELSE CHOOSE k \in dots : TRUE
      ip   == SubSeq(body, 1, dot - 1)
      fp   == SubSeq(body, dot + 1, Len(body))
      good == /\ Cardinality(dots) <= 1
              /\ AllDigits(ip) /\ AllDigits(fp)
              /\ Len(ip) + Len(fp) >= 1
  IN IF good
       THEN [ok |-> TRUE,
             val |-> Normalize([sign |-> sgn, mant |-> DigitsVal(ip \o fp),
                                scale |-> Len(fp)])]
       ELSE [ok |-> FALSE, val |-> Zero]

-----------------------------------------------------------------------------
(* Parsed markup.  An optional node or attribute is <<>> (absent) or <<v>>. *)

NA == <<"N", "/", "A">>

\* One <article class="product_pod">: h3 is "none" (no <h3>), "noa" (an <h3>
\* without <a>) or "a"; title is the optional title attribute of the <a>;
\* price the optional text of <p class="price_color">; rating the optional
\* class list of <p class="star-rating">.
Book(h3, title, price, rating) ==
  [h3 |-> h3, title |-> title, price |-> price, rating |-> rating]

T1 == <<"T", "1">>
T2 == <<"T", "2">>
T3 == <<" ", "T", "3", " ">>

P5177 == <<POUND, "5", "1", ".", "7", "7">>
P5374 == <<POUND, "5", "3", ".", "7", "4">>
P1000 == <<POUND, "1", "0", ".", "0", "0">>
P099  == <<" ", POUND, "0", ".", "9", "9", " ">>
PArt  == <<ACIRC, POUND, "5", "1", ".", "7", "7">>
PBad  == <<POUND, "a", "b", "c">>
PNone == <<POUND>>

Stars(w) == <<<<"star-rating", w>>>>

BookPages ==
  { <<>>,
    << Book("a", <<T1>>, <<P5177>>, Stars("Three")),
       Book("a", <<T2>>, <<P5374>>, Stars("One")) >>,
    << Book("a", <<T3>>, <<P1000>>, Stars("Two")),
       Book("a", <<T1>>, <<P099>>, Stars("Four")),
       Book("a", <<T2>>, <<P1000>>, Stars("Five")) >>,
    << Book("a", <<>>, <<>>, <<>>),
       Book("a", <<T1>>, <<P1000>>, <<<<"star-rating">>>>) >>,
    << Book("a", <<T2>>, <<>>, Stars("three")),
       Book("a", <<T1>>, <<P099>>, <<<<"Three", "star-rating">>>>),
       Book("a", <<T1>>, <<P5177>>, Stars("Six")),
       Book("a", <<T3>>, <<P5374>>, Stars("Three")) >>,
    << Book("a", <<T1>>, <<P5177>>, Stars("Three")),
       Book("none", <<>>, <<P5374>>, Stars("One")),
       Book("a", <<T2>>, <<P1000>>, Stars("Two")) >>,
    << Book("noa", <<>>, <<P5374>>, Stars("One")) >>,
    << Book("a", <<T1>>, <<PArt>>, Stars("Five")),
       Book("a", <<T2>>, <<P1000>>, Stars("Two")) >>,
    << Book("a", <<T1>>, <<PBad>>, Stars("Four")),
       Book("a", <<T2>>, <<P1000>>, Stars("Two")) >>,
    << Book("a", <<T2>>, <<PNone>>, <<>>) >> }

BookUrls == {"https://books.toscrape.com"}

-----------------------------------------------------------------------------
(* Field extraction of the two book scrapers.  A result [ok |-> FALSE,     *)
(* exc |-> e] is the exception the statement raises.                        *)

Ok(v) == [ok |-> TRUE, val |-> v, exc |-> "none"]
Raise(e) == [ok |-> FALSE, val |-> <<>>, exc |-> e]

\* rating_map.get(rating_text, 0), rating_text optional (None = <<>>)
rating_map(rating_text) ==
  IF rating_text = <<>> THEN 0
  ELSE CASE rating_text[1] = "One" -> 1
         [] rating_text[1] = "Two" -> 2
         [] rating_text[1] = "Three" -> 3
         [] rating_text[1] = "Four" -> 4
         [] rating_text[1] = "Five" -> 5
         [] OTHER -> 0

\* variant: rating_class[0]
rating_text_of_First(rating_class) ==
  IF Len(rating_class) > 1 THEN <<rating_class[1]>> ELSE <<>>

\* rating_class[1] if len(rating_class) > 1 else None
rating_text_of(rating_class) ==
  IF Len(rating_class) > 1 THEN <<rating_class[2]>> ELSE <<>>

ExtractRating(book) ==
  IF book.rating # <<>>
    THEN rating_map(rating_text_of(book.rating[1]))
    ELSE 0

\* book.find('h3').find('a') then .get('title', 'N/A')
ExtractTitle(book) ==
  IF book.h3 # "a" THEN Raise("AttributeError")
  ELSE Ok(IF book.title # <<>> THEN book.title[1] ELSE NA)

\* book_scraper2 strips the title
ExtractTitle2(book) ==
  IF book.h3 # "a" THEN Raise("AttributeError")
  ELSE Ok(Strip(IF book.title # <<>> THEN book.title[1] ELSE NA))

\* book_scraper: float(price_text.replace(POUND, '')) or 0.0
ExtractPrice(book) ==
  IF book.price # <<>>
    THEN LET price_text == Strip(book.price[1])
             f == ParseFloat(Remove(price_text, POUND))
         IN IF f.ok THEN Ok(f.val) ELSE Raise("ValueError")
    ELSE Ok(Zero)

\* book_scraper2: the artifact is stripped too; a missing node reads POUND 0.00
ExtractPrice2(book) ==
  LET price_text == IF book.price # <<>> THEN Strip(book.price[1])
                    ELSE <<POUND, "0", ".", "0", "0">>
      cleaned_price == Strip(Remove(Remove(price_text, ACIRC), POUND))
      f == ParseFloat(cleaned_price)
  IN IF f.ok THEN Ok(f.val) ELSE Raise("ValueError")

\* One iteration of "for book in book_containers": the record appended, or
\* the first exception raised (title, then price, then rating).
ExtractBook(book) ==
  LET t == ExtractTitle(book)
      p == ExtractPrice(book)
  IN IF ~t.ok THEN t
     ELSE IF ~p.ok THEN p
     ELSE Ok([title |-> t.val, price |-> p.val, rating |-> ExtractRating(book)])

ExtractBook2(book) ==
  LET t == ExtractTitle2(book)
      p == ExtractPrice2(book)
  IN IF ~t.ok THEN t
     ELSE IF ~p.ok THEN p
     ELSE Ok([title |-> t.val, price |-> p.val, rating |-> ExtractRating(book)])

\* f"{url}/catalogue/page-{page}.html" if page > 1 else url
page_url(url, page) ==
  IF page > 1 THEN <<url, "/catalogue/page-", page, ".html">> ELSE <<url>>

-----------------------------------------------------------------------------
(* durex_scraper.py: markup and link resolution *)

DescMax == 200

HTTP == <<"h", "t", "t", "p">>

\* One candidate product element: the text of the first heading whose class
\* holds a title keyword, of the first heading at all, of the description
\* node, of the category node, and the href of the first <a href>.
Element(title_kw, title_any, desc, href, category) ==
  [title_kw |-> title_kw, title_any |-> title_any, desc |-> desc,
   href |-> href, category |-> category]

\* One <a href>: its href and its text
Anchor(href, text) == [href |-> href, text |-> text]

Base1 == <<"h", "t", "t", "p", ":", "/", "/", "d">>
Base2 == <<"h", "t", "t", "p", ":", "/", "/", "d", "/">>
DurexUrls == {Base1, Base2}

HRel    == <<"p">>
HRoot   == <<"/", "p">>
HAbs    == <<"h", "t", "t", "p", ":", "/", "/", "e", "/", "q">>
HMail   == <<"m", "a", "i", "l", "t", "o", ":", "a">>
HFrag   == <<"#", "t">>
HEmpty  == <<>>

\* link = base_url.rstrip('/') + '/' + link.lstrip('/') unless it starts
\* with 'http'
resolve_link(href, base_url) ==
  IF ~StartsWith(href, HTTP)
    THEN RStripSet(base_url, {"/"}) \o <<"/">> \o LStripSet(href, {"/"})
    ELSE href

\* get_text(strip=True) if elem else 'N/A'
text_or_na(elem) == IF elem # <<>> THEN Strip(elem[1]) ELSE NA

\* One iteration of "for idx, element in enumerate(product_elements, 1)":
\* the link computed and the record appended, if any (<<>>: none).
ExtractProduct(element, base_url) ==
  LET title_elem == IF element.title_kw # <<>> THEN element.title_kw
                    ELSE element.title_any
      title == text_or_na(title_elem)
      description == text_or_na(element.desc)
      link0 == IF element.href # <<>> THEN element.href[1] ELSE NA
      lnk == IF link0 # NA THEN resolve_link(link0, base_url) ELSE link0
      category == text_or_na(element.category)
  IN [link |-> lnk,
      rec |-> IF title # NA \/ description # NA
                THEN << [title |-> title,
                         description |-> IF description # NA
                            THEN SubSeq(description, 1,
                                   IF Len(description) < DescMax
                                     THEN Len(description) ELSE DescMax)
                            ELSE NA,
                         category |-> category,
                         link |-> lnk] >>
                ELSE <<>>]

\* One iteration of "for link in soup.find_all('a', href=True, limit=50)"
ExtractLink(a, base_url) ==
  IF Strip(a.text) # <<>> /\ a.href # <<>> /\ ~StartsWith(a.href, <<"#">>)
    THEN << [text |-> Strip(a.text), url |-> resolve_link(a.href, base_url)] >>
    ELSE <<>>

E1 == Element(<<T1>>, <<T1>>, <<T2>>, <<HRel>>, <<T3>>)
E2 == Element(<<>>, <<T2>>, <<>>, <<HAbs>>, <<>>)
E3 == Element(<<>>, <<>>, <<>>, <<HRoot>>, <<>>)
E4 == Element(<<>>, <<>>, <<T3>>, <<HMail>>, <<>>)
E5 == Element(<<T2>>, <<T1>>, <<>>, <<>>, <<T1>>)
E6 == Element(<<>>, <<T1>>, <<>>, <<HFrag>>, <<>>)

ProductPages ==
  { <<>>, <<E1, E2>>, <<E3, E4>>, <<E5, E6, E1>>,
    [j \in 1..11 |-> IF j % 2 = 0 THEN E1 ELSE E2] }

AnchorPages ==
  { <<>>,
    << Anchor(HRel, T1), Anchor(HFrag, T2), Anchor(HAbs, T3) >>,
    << Anchor(HMail, T1), Anchor(HRoot, <<" ">>), Anchor(HEmpty, T2) >>,
    << Anchor(HRoot, T2), Anchor(HRel, T1) >> }

-----------------------------------------------------------------------------
(* State *)

VARIABLES
  prog,             \* the script that runs
  pc,               \* position in it
  url,              \* url / base_url argument
  max_pages,        \* max_pages argument of book_scraper.scrape_books
  page,             \* loop variable of "for page in range(1, max_pages + 1)"
  gets,             \* URLs passed to requests.get so far, in call order
  failed,           \* requests.get / raise_for_status calls that raised
  sleeps,           \* time.sleep calls so far
  stopped,          \* how the page loop of book_scraper was left
  exc,              \* exception propagated out of the script, or "none"
  book_containers,  \* containers of the page being extracted
  idx,              \* containers / elements / anchors of it processed so far
  books,            \* the list scrape_books accumulates
  anchors,          \* soup.find_all('a', href=True, limit=50)
  links,            \* content['links']
  product_elements, \* soup.find_all(['article', 'div'], class_=...)
  products,         \* the list scrape_products accumulates
  link              \* local "link" of scrape_products

vars == <<prog, pc, url, max_pages, page, gets, failed, sleeps, stopped, exc,
          book_containers, idx, books, anchors, links, product_elements,
          products, link>>

durexVars == <<anchors, links, product_elements, products, link>>

Init ==
  /\ prog \in {"book_scraper", "book_scraper2", "durex_scraper"}
  /\ pc = "start"
  /\ url \in (IF prog = "durex_scraper" THEN DurexUrls ELSE BookUrls)
  /\ max_pages \in (IF prog = "book_scraper" THEN 1..MaxPagesBound ELSE {0})
  /\ page = 0
  /\ gets = <<>>
  /\ failed = 0
  /\ sleeps = 0
  /\ stopped = "none"
  /\ exc = "none"
  /\ book_containers = <<>>
  /\ idx = 0
  /\ books = <<>>
  /\ anchors = <<>>
  /\ links = <<>>
  /\ product_elements = <<>>
  /\ products = <<>>
  /\ link = <<>>

-----------------------------------------------------------------------------
(* book_scraper.py: scrape_books(url, max_pages) *)

AtFor == prog = "book_scraper" /\ pc \in {"start", "for"}

\* variant: range(1, max_pages + 2)
HasNextPage_OffByOne == page <= max_pages

\* range(1, max_pages + 1) has a next value after "page"
HasNextPage == page < max_pages

\* variant: the except clause continues with the next page
scrape_books_FetchError_Continue ==
  /\ AtFor /\ HasNextPage
  /\ page' = page + 1
  /\ gets' = Append(gets, page_url(url, page + 1))
  /\ failed' = failed + 1
  /\ pc' = "for"
  /\ UNCHANGED <<prog, url, max_pages, sleeps, stopped, exc, book_containers,
                 idx, books, durexVars>>

\* requests.get(page_url) or raise_for_status() raises RequestException:
\* the except clause breaks out of the loop and books is returned.
scrape_books_FetchError ==
  /\ AtFor /\ HasNextPage
  /\ page' = page + 1
  /\ gets' = Append(gets, page_url(url, page + 1))
  /\ failed' = failed + 1
  /\ stopped' = "FetchError"
  /\ pc' = "done"
  /\ UNCHANGED <<prog, url, max_pages, sleeps, exc, book_containers, idx,
                 books, durexVars>>

\* variant: an empty page is skipped and the loop continues
scrape_books_EmptyPage_Continue ==
  /\ AtFor /\ HasNextPage
  /\ page' = page + 1
  /\ gets' = Append(gets, page_url(url, page + 1))
  /\ book_containers' = <<>>
  /\ idx' = 0
  /\ pc' = "for"
  /\ UNCHANGED <<prog, url, max_pages, failed, sleeps, stopped, exc, books,
                 durexVars>>

\* the page has no article.product_pod: break
scrape_books_EmptyPage ==
  /\ AtFor /\ HasNextPage
  /\ page' = page + 1
  /\ gets' = Append(gets, page_url(url, page + 1))
  /\ book_containers' = <<>>
  /\ idx' = 0
  /\ stopped' = "EmptyPage"
  /\ pc' = "done"
  /\ UNCHANGED <<prog, url, max_pages, failed, sleeps, exc, books, durexVars>>

\* the page has containers: enter "for book in book_containers"
scrape_books_Fetch ==
  /\ AtFor /\ HasNextPage
  /\ \E c \in BookPages \ {<<>>} :
       /\ book_containers' = c
       /\ idx' = 0
  /\ page' = page + 1
  /\ gets' = Append(gets, page_url(url, page + 1))
  /\ pc' = "extract"
  /\ UNCHANGED <<prog, url, max_pages, failed, sleeps, stopped, exc, books,
                 durexVars>>

\* variant: a record equal to one already collected is dropped
scrape_books_Extract_Dedup ==
  /\ prog = "book_scraper" /\ pc = "extract"
  /\ LET r == ExtractBook(book_containers[idx + 1])
     IN /\ r.ok
        /\ books' = IF \E k \in 1..Len(books) : books[k] = r.val
                      THEN books ELSE Append(books, r.val)
  /\ idx' = idx + 1
  /\ pc' = IF idx + 1 = Len(book_containers) THEN "for" ELSE "extract"
  /\ UNCHANGED <<prog, url, max_pages, page, gets, failed, sleeps, stopped,
                 exc, book_containers, durexVars>>

\* one container yields a record; after the last one, back to the page loop
scrape_books_Extract ==
  /\ prog = "book_scraper" /\ pc = "extract"
  /\ LET r == ExtractBook(book_containers[idx + 1])
     IN /\ r.ok
        /\ books' = Append(books, r.val)
  /\ idx' = idx + 1
  /\ pc' = IF idx + 1 = Len(book_containers) THEN "for" ELSE "extract"
  /\ UNCHANGED <<prog, url, max_pages, page, gets, failed, sleeps, stopped,
                 exc, book_containers, durexVars>>

\* one container raises an exception that is no RequestException: it
\* propagates out of scrape_books
scrape_books_Raise ==
  /\ prog = "book_scraper" /\ pc = "extract"
  /\ LET r == ExtractBook(book_containers[idx + 1])
     IN /\ ~r.ok
        /\ exc' = r.exc
  /\ pc' = "raised"
  /\ UNCHANGED <<prog, url, max_pages, page, gets, failed, sleeps, stopped,
                 book_containers, idx, books, durexVars>>

\* range(1, max_pages + 1) is exhausted
scrape_books_MaxPages ==
  /\ AtFor /\ ~HasNextPage
  /\ stopped' = "MaxPagesReached"
  /\ pc' = "done"
  /\ UNCHANGED <<prog, url, max_pages, page, gets, failed, sleeps, exc,
                 book_containers, idx, books, durexVars>>

-----------------------------------------------------------------------------
(* book_scraper2.py: scrape_books(url) *)

\* requests.get(url, timeout=30) or raise_for_status() raises: not caught
scrape_books2_FetchError ==
  /\ prog = "book_scraper2" /\ pc = "start"
  /\ gets' = Append(gets, <<url>>)
  /\ failed' = failed + 1
  /\ exc' = "RequestException"
  /\ pc' = "raised"
  /\ UNCHANGED <<prog, url, max_pages, page, sleeps, stopped, book_containers,
                 idx, books, durexVars>>

scrape_books2_Fetch ==
  /\ prog = "book_scraper2" /\ pc = "start"
  /\ gets' = Append(gets, <<url>>)
  /\ \E c \in BookPages :
       /\ book_containers' = c
       /\ pc' = IF c = <<>> THEN "done" ELSE "extract"
  /\ idx' = 0
  /\ UNCHANGED <<prog, url, max_pages, page, failed, sleeps, stopped, exc,
                 books, durexVars>>

scrape_books2_Extract ==
  /\ prog = "book_scraper2" /\ pc = "extract"
  /\ LET r == ExtractBook2(book_containers[idx + 1])
     IN /\ r.ok
        /\ books' = Append(books, r.val)
  /\ idx' = idx + 1
  /\ pc' = IF idx + 1 = Len(book_containers) THEN "done" ELSE "extract"
  /\ UNCHANGED <<prog, url, max_pages, page, gets, failed, sleeps, stopped,
                 exc, book_containers, durexVars>>

scrape_books2_Raise ==
  /\ prog = "book_scraper2" /\ pc = "extract"
  /\ LET r == ExtractBook2(book_containers[idx + 1])
     IN /\ ~r.ok
        /\ exc' = r.exc
  /\ pc' = "raised"
  /\ UNCHANGED <<prog, url, max_pages, page, gets, failed, sleeps, stopped,
                 book_containers, idx, books, durexVars>>

-----------------------------------------------------------------------------
(* durex_scraper.py: main() calls scrape_page_content(base_url), then      *)
(* scrape_products(base_url)                                                *)

SleepEvery == 10

bookVars == <<max_pages, page, stopped, exc, book_containers, books>>

\* get_page_content returns None: scrape_page_content returns {}
scrape_page_content_FetchError ==
  /\ prog = "durex_scraper" /\ pc = "start"
  /\ gets' = Append(gets, url)
  /\ failed' = failed + 1
  /\ pc' = "products_start"
  /\ UNCHANGED <<prog, url, sleeps, idx, bookVars, durexVars>>

scrape_page_content_Fetch ==
  /\ prog = "durex_scraper" /\ pc = "start"
  /\ gets' = Append(gets, url)
  /\ \E c \in AnchorPages :
       /\ anchors' = c
       /\ pc' = IF c = <<>> THEN "products_start" ELSE "links"
  /\ idx' = 0
  /\ UNCHANGED <<prog, url, failed, sleeps, bookVars, links,
                 product_elements, products, link>>

\* one iteration of the navigation-links loop
scrape_page_content_Link ==
  /\ prog = "durex_scraper" /\ pc = "links"
  /\ links' = links \o ExtractLink(anchors[idx + 1], url)
  /\ idx' = idx + 1
  /\ pc' = IF idx + 1 = Len(anchors) THEN "products_start" ELSE "links"
  /\ UNCHANGED <<prog, url, gets, failed, sleeps, bookVars, anchors,
                 product_elements, products, link>>

\* get_page_content returns None: scrape_products returns []
scrape_products_FetchError ==
  /\ prog = "durex_scraper" /\ pc = "products_start"
  /\ gets' = Append(gets, url)
  /\ failed' = failed + 1
  /\ pc' = "done"
  /\ UNCHANGED <<prog, url, sleeps, idx, bookVars, durexVars>>

scrape_products_Fetch ==
  /\ prog = "durex_scraper" /\ pc = "products_start"
  /\ gets' = Append(gets, url)
  /\ \E c \in ProductPages :
       /\ product_elements' = c
       /\ pc' = IF c = <<>> THEN "done" ELSE "products"
  /\ idx' = 0
  /\ UNCHANGED <<prog, url, failed, sleeps, bookVars, anchors, links,
                 products, link>>

\* one iteration of the product loop, with its rate-limiting sleep
scrape_products_Element ==
  /\ prog = "durex_scraper" /\ pc = "products"
  /\ LET r == ExtractProduct(product_elements[idx + 1], url)
     IN /\ link' = r.link
        /\ products' = products \o r.rec
  /\ idx' = idx + 1
  /\ sleeps' = IF (idx + 1) % SleepEvery = 0 THEN sleeps + 1 ELSE sleeps
  /\ pc' = IF idx + 1 = Len(product_elements) THEN "done" ELSE "products"
  /\ UNCHANGED <<prog, url, gets, failed, bookVars, anchors, links,
                 product_elements>>

-----------------------------------------------------------------------------

Next ==
  \/ scrape_books_FetchError
  \/ scrape_books_EmptyPage
  \/ scrape_books_Fetch
  \/ scrape_books_Extract
  \/ scrape_books_Raise
  \/ scrape_books_MaxPages
  \/ scrape_books2_FetchError
  \/ scrape_books2_Fetch
  \/ scrape_books2_Extract
  \/ scrape_books2_Raise
  \/ scrape_page_content_FetchError
  \/ scrape_page_content_Fetch
  \/ scrape_page_content_Link
  \/ scrape_products_FetchError
  \/ scrape_products_Fetch
  \/ scrape_products_Element

Spec == Init /\ [][Next]_vars

TypeOK ==
  /\ pc \in {"start", "for", "extract", "done", "raised", "links",
             "products_start", "products"}
  /\ failed \in 0..2
  /\ idx \in 0..11

-----------------------------------------------------------------------------
(* Properties *)

Paginated == prog = "book_scraper"
BookProg == prog \in {"book_scraper", "book_scraper2"}

\* the record collected for container j of the page being extracted
RecordOf(j) == books[Len(books) - idx + j]

\* C1: in a paginated session the number of pages requested never exceeds
\* max_pages, whatever the outcomes of the fetches.
C1_PagesBounded ==
  Paginated => Len(gets) <= max_pages /\ page <= max_pages

C1_Witness ==
  Paginated /\ max_pages >= 2 /\ Len(gets) = max_pages /\ pc = "for"

\* C2: the step on which a fetch fails ends the paginated session with
\* reason FetchError: no exception propagates, the collected records are
\* kept as they are, exactly one failure is counted, and nothing is fetched
\* or collected afterwards.
C2_FetchErrorStops ==
  [][ Paginated =>
        /\ failed' > failed =>
             /\ pc' = "done" /\ stopped' = "FetchError" /\ exc' = "none"
             /\ books' = books /\ failed' = 1
             /\ Len(gets') = Len(gets) + 1
        /\ stopped = "FetchError" =>
             gets' = gets /\ books' = books /\ pc' = "done" ]_vars

C2_Witness ==
  /\ Paginated /\ stopped = "FetchError" /\ pc = "done"
  /\ Len(gets) = 3 /\ failed = 1 /\ Len(books) >= 2

\* C3: the step on which a page without containers is fetched ends the
\* paginated session with reason EmptyPage: nothing is collected, no failure
\* is counted, no exception propagates, and nothing is fetched afterwards.
C3_EmptyPageStops ==
  [][ Paginated =>
        /\ (Len(gets') > Len(gets) /\ failed' = failed
              /\ book_containers' = <<>>) =>
             /\ pc' = "done" /\ stopped' = "EmptyPage" /\ exc' = "none"
             /\ books' = books /\ failed' = 0
        /\ stopped = "EmptyPage" =>
             gets' = gets /\ books' = books /\ pc' = "done" ]_vars

C3_Witness ==
  /\ Paginated /\ stopped = "EmptyPage" /\ pc = "done"
  /\ Len(gets) = 2 /\ Len(books) = 2 /\ failed = 0

\* C4: a paginated session whose max_pages pages were all fetched and all
\* had containers ends with reason MaxPagesReached, having requested exactly
\* max_pages pages.
C4_MaxPagesReached ==
  (/\ Paginated /\ pc \in {"done", "raised"}
   /\ Len(gets) = max_pages /\ failed = 0 /\ book_containers # <<>>)
  => (pc = "done" /\ stopped = "MaxPagesReached" /\ page = max_pages)

\* the five ordinal words, by rank
Ordinal == <<"One", "Two", "Three", "Four", "Five">>

RankOf(w) ==
  IF \E k \in 1..5 : Ordinal[k] = w
    THEN CHOOSE k \in 1..5 : Ordinal[k] = w ELSE 0

ExpectedRating(book) ==
  IF book.rating = <<>> THEN 0
  ELSE IF Len(book.rating[1]) < 2 THEN 0
  ELSE RankOf(book.rating[1][2])

\* C5: every record collected carries the rank of the ordinal word that is
\* the second class of its container's rating node, and 0 when that word is
\* none of One..Five, the class list is shorter or the node is missing; all
\* ratings are in 0..5.
C5_RatingNormalized ==
  BookProg =>
    /\ Len(books) >= idx
    /\ \A j \in 1..idx :
         RecordOf(j).rating = ExpectedRating(book_containers[j])
    /\ \A k \in 1..Len(books) : books[k].rating \in 0..5

C5_Witness ==
  /\ BookProg /\ idx = 4 /\ Len(books) >= 4
  /\ book_containers[1].rating = Stars("three")
  /\ book_containers[4].rating = Stars("Three")
  /\ <<RecordOf(1).rating, RecordOf(2).rating, RecordOf(3).rating,
       RecordOf(4).rating>> = <<0, 0, 0, 3>>

\* the amount a price text stands for once the artifact, the currency
\* symbol and surrounding blanks are removed; 0 when that is no number
ExpectedPrice(book) ==
  IF book.price = <<>> THEN Zero
  ELSE LET f == ParseFloat(Strip(Remove(Remove(book.price[1], ACIRC), POUND)))
       IN IF f.ok THEN f.val ELSE Zero

\* C6: every price text is turned into its amount, with or without the
\* artifact before the currency symbol, a non-numeric remainder gives price 0,
\* and no ValueError is raised.
C6_PriceNormalized ==
  BookProg =>
    /\ exc # "ValueError"
    /\ Len(books) >= idx
    /\ \A j \in 1..idx :
         RecordOf(j).price = ExpectedPrice(book_containers[j])

Letters ==
  {"a", "b", "c", "d", "e", "f", "g", "h", "i", "j", "k", "l", "m", "n", "o",
   "p", "q", "r", "s", "t", "u", "v", "w", "x", "y", "z"}

\* href begins with a URI scheme: a letter, then letters, digits, + - .
\* up to a colon
HasScheme(href) ==
  \E k \in 2..Len(href) :
    /\ href[k] = ":"
    /\ href[1] \in Letters
    /\ \A m \in 1..(k - 1) : href[m] \in Letters \cup Digits \cup {"+", "-", "."}

\* C7: the link computed for a product element whose href has a scheme is
\* that href, and resolving a resolved link again changes nothing.
C7_LinkResolution ==
  (/\ prog = "durex_scraper" /\ pc \in {"products", "done"}
   /\ idx \in 1..Len(product_elements)
   /\ product_elements[idx].href # <<>>)
  => LET href == product_elements[idx].href[1]
     IN /\ HasScheme(href) => link = href
        /\ resolve_link(link, url) = link

ExpectedTitle(book) ==
  IF book.h3 = "a" /\ book.title # <<>> THEN book.title[1] ELSE NA

\* C8: whatever nodes a container lacks, no AttributeError or ValueError
\* leaves the extraction, and each processed container has its record with
\* the defaults "N/A", 0 and 0 in place of what is missing or malformed.
C8_PartialRecordTolerance ==
  BookProg =>
    /\ exc \notin {"AttributeError", "ValueError"}
    /\ Len(books) >= idx
    /\ \A j \in 1..idx :
         /\ Strip(RecordOf(j).title) = Strip(ExpectedTitle(book_containers[j]))
         /\ RecordOf(j).price = ExpectedPrice(book_containers[j])
         /\ RecordOf(j).rating = ExpectedRating(book_containers[j])

\* the URL of page j: the base URL for page 1, the page-j URL after it
ExpectedUrl(j) ==
  IF j = 1 THEN <<url>> ELSE <<url, "/catalogue/page-", j, ".html">>

\* C9: pages are requested in the order 1, 2, 3, ... (the base URL, then the
\* page-N URLs), and every step leaves the collected records as they are or
\* appends the record of the next container of the page being extracted.
C9_OrderedAppendOnly ==
  /\ [](Paginated =>
          /\ Len(gets) = page
          /\ \A j \in 1..Len(gets) : gets[j] = ExpectedUrl(j))
  /\ [][ Paginated =>
           /\ page' \in {page, page + 1}
           /\ idx' = idx + 1 =>
                books' = Append(books, ExtractBook(book_containers[idx + 1]).val)
           /\ idx' # idx + 1 => books' = books ]_vars

C9_Witness ==
  /\ Paginated /\ page = 3 /\ pc = "for"
  /\ \E a, b \in 1..Len(books) : a < b /\ books[a] = books[b]

\* C10: in a paginated session at least one pacing delay lies between any
\* two successive requests.
C10_PacedFetches ==
  (Paginated /\ Len(gets) >= 2) => sleeps >= Len(gets) - 1

====
